---- MODULE Spec2Model ----
(***************************************************************************)
(* A model of src/src/server.js: an Express application that keeps a list  *)
(* of content records in one JSON file (content-data.json) and serves      *)
(* create / list / get / delete / reset / fix-image-urls over HTTP.        *)
(*                                                                         *)
(* Strings whose contents the code inspects (title, description, imageUrl, *)
(* mimetype, originalname, host) are sequences of tokens, so that trim(),  *)
(* startsWith(), includes(), split('/').pop() and template concatenation   *)
(* are computed, not assumed.  Strings that are only compared (ids, HTTP   *)
(* methods, messages) are atoms.                                           *)
(***************************************************************************)
EXTENDS Integers, Sequences, FiniteSets, TLC

VARIABLES
    dataFile,   \* content-data.json: [exists, content]
    running,    \* the process is up (initializeDataFile and app.listen have run)
    pending,    \* POST /api/content requests whose multipart body multer is still receiving
    uuidCount,  \* how many values uuidv4() has returned so far
    resp,       \* the last response sent: operation, :id, status (op "init" / "stop": the process started / exited)
    live        \* history: the successful Creates, oldest first, whose record nothing has removed since

vars == <<dataFile, running, pending, uuidCount, resp, live>>

---------------------------------------------------------------------------
(* Bounds of the model *)

MaxUuid == 4
MaxPending == 1

---------------------------------------------------------------------------
(* JavaScript strings and values *)

Null == [t |-> "null"]
Str(s) == [t |-> "str", s |-> s]

\* `x && ...` / `!x` on null or a string: null and '' are falsy
Truthy(v) == v # Null /\ v.s # <<>>

\* String.prototype.startsWith('http')
StartsWithHttp(s) == Len(s) > 0 /\ s[1] \in {"http://", "https://"}

\* String.prototype.startsWith('image/')
StartsWithImage(s) == Len(s) > 0 /\ s[1] = "image/"

\* String.prototype.includes(tok)
Includes(s, tok) == \E i \in 1..Len(s) : s[i] = tok

RECURSIVE TrimStart(_)
TrimStart(s) == IF s # <<>> /\ Head(s) = " " THEN TrimStart(Tail(s)) ELSE s

RECURSIVE TrimEnd(_)
TrimEnd(s) ==
    IF s # <<>> /\ s[Len(s)] = " " THEN TrimEnd(SubSeq(s, 1, Len(s) - 1)) ELSE s

\* String.prototype.trim()
Trim(s) == TrimEnd(TrimStart(s))

\* s.split('/').pop(): what follows the last '/'
SplitPop(s) ==
    LET slashes == {i \in 1..Len(s) : s[i] = "/"}
        last == IF slashes = {} THEN 0 ELSE CHOOSE i \in slashes : \A j \in slashes : j <= i
    IN SubSeq(s, last + 1, Len(s))

\* new Date().toISOString(): the clock is not modelled.  Timestamps are
\* written into records and never read again, so every one of them is the
\* same opaque value.
toISOString == "<timestamp>"

\* uuidv4(): the n-th value returned; never the seeded id '1'
uuidv4(n) == "uuid-" \o ToString(n)

\* `${req.protocol}://${req.get('host')}${path}`
AbsoluteUrl(host, path) == <<"http://">> \o host \o path

---------------------------------------------------------------------------
(* The record store: content-data.json *)

NoFile == [exists |-> FALSE, content |-> <<>>]
FileWith(content) == [exists |-> TRUE, content |-> content]

\* initialData of initializeDataFile
initialData ==
    << [id |-> "1",
        title |-> <<"Welcome to the Content Management System">>,
        description |-> <<"This is a sample content item that will persist even after server restart.">>,
        imageUrl |-> Null,
        createdAt |-> toISOString,
        updatedAt |-> toISOString] >>

\* sampleData of POST /api/reset
sampleData ==
    << [id |-> "1",
        title |-> <<"Welcome to Content Management System">>,
        description |-> <<"This is permanent sample content. Your data survives server restarts!">>,
        imageUrl |-> Null,
        createdAt |-> toISOString,
        updatedAt |-> toISOString] >>

\* Mutant of initializeDataFile: the fs.existsSync test is missing
initializeDataFileAlways(file) == FileWith(initialData)

\* initializeDataFile: writes the seed only when the file does not exist
initializeDataFile(file) ==
    IF ~file.exists THEN FileWith(initialData) ELSE file

\* readContentFromFile: a failed read (no file) is swallowed and reads as []
readContentFromFile(file) ==
    IF file.exists THEN file.content ELSE <<>>

\* writeContentToFile: overwrites the whole file; writeOk = FALSE is
\* fs.writeFileSync throwing before anything is written (the catch returns false)
writeContentToFile(file, content, writeOk) ==
    [file |-> IF writeOk THEN FileWith(content) ELSE file, ret |-> writeOk]

\* A data file left by the earlier revision that stored absolute URLs with the
\* development host (the records POST /api/fix-image-urls exists for)
LegacyContent ==
    << [id |-> "legacy-2",
        title |-> <<"second">>,
        description |-> <<"stored with the LAN address">>,
        imageUrl |-> Str(<<"http://", "10.185.32.235", ":2148", "/", "uploads", "/", "two.png">>),
        createdAt |-> toISOString,
        updatedAt |-> toISOString],
       [id |-> "legacy-1",
        title |-> <<"first">>,
        description |-> <<"stored with localhost">>,
        imageUrl |-> Str(<<"http://", "localhost", ":2148", "/", "uploads", "/", "one.png">>),
        createdAt |-> toISOString,
        updatedAt |-> toISOString] >>

IdsOf(content) == {content[i].id : i \in 1..Len(content)}

---------------------------------------------------------------------------
(* The Express stack, in registration order.  use = app.use (prefix match); *)
(* err = a four-argument (error-handling) middleware.                       *)

Layers ==
    << [name |-> "cors",                     use |-> TRUE,  err |-> FALSE, method |-> "*",      path |-> <<>>],
       [name |-> "express.json",             use |-> TRUE,  err |-> FALSE, method |-> "*",      path |-> <<>>],
       [name |-> "express.static",           use |-> TRUE,  err |-> FALSE, method |-> "*",      path |-> <<"uploads">>],
       [name |-> "multerErrorHandler",       use |-> TRUE,  err |-> TRUE,  method |-> "*",      path |-> <<>>],
       [name |-> "GET /",                    use |-> FALSE, err |-> FALSE, method |-> "GET",    path |-> <<>>],
       [name |-> "GET /api/health",          use |-> FALSE, err |-> FALSE, method |-> "GET",    path |-> <<"api", "health">>],
       [name |-> "GET /api/content",         use |-> FALSE, err |-> FALSE, method |-> "GET",    path |-> <<"api", "content">>],
       [name |-> "POST /api/content",        use |-> FALSE, err |-> FALSE, method |-> "POST",   path |-> <<"api", "content">>],
       [name |-> "POST /api/fix-image-urls", use |-> FALSE, err |-> FALSE, method |-> "POST",   path |-> <<"api", "fix-image-urls">>],
       [name |-> "DELETE /api/content/:id",  use |-> FALSE, err |-> FALSE, method |-> "DELETE", path |-> <<"api", "content", ":id">>],
       [name |-> "POST /api/reset",          use |-> FALSE, err |-> FALSE, method |-> "POST",   path |-> <<"api", "reset">>],
       [name |-> "GET /api/storage-info",    use |-> FALSE, err |-> FALSE, method |-> "GET",    path |-> <<"api", "storage-info">>],
       [name |-> "GET /api/content/:id",     use |-> FALSE, err |-> FALSE, method |-> "GET",    path |-> <<"api", "content", ":id">>],
       [name |-> "notFoundHandler",          use |-> TRUE,  err |-> FALSE, method |-> "*",      path |-> <<>>],
       [name |-> "globalErrorHandler",       use |-> TRUE,  err |-> TRUE,  method |-> "*",      path |-> <<>>] >>

\* cors() and express.json() always call next()
PassThrough == {"cors", "express.json"}

LayerIndex(name) == CHOOSE i \in 1..Len(Layers) : Layers[i].name = name

\* Express's path match: app.use matches a prefix, a route the whole path,
\* a ':param' segment anything
PathMatches(layer, path) ==
    IF layer.use
    THEN Len(layer.path) <= Len(path)
         /\ \A i \in 1..Len(layer.path) : layer.path[i] = path[i]
    ELSE Len(layer.path) = Len(path)
         /\ \A i \in 1..Len(path) : layer.path[i] \in {path[i], ":id"}

\* Express's router: the first layer at or after `from` that handles the
\* request.  While an error is being passed (next(err)) only error-handling
\* middleware is considered, otherwise only ordinary layers.
RECURSIVE Dispatch(_, _, _, _)
Dispatch(from, method, path, hasErr) ==
    IF from > Len(Layers) THEN "finalhandler"
    ELSE LET l == Layers[from]
         IN IF /\ l.err = hasErr
               /\ l.method \in {"*", method}
               /\ PathMatches(l, path)
               /\ l.name \notin PassThrough
            THEN l.name
            ELSE Dispatch(from + 1, method, path, hasErr)

---------------------------------------------------------------------------
(* multer: upload.single('image') *)

fileSizeLimit == 5 * 1024 * 1024

NoUpload == [present |-> FALSE, originalname |-> <<>>, mimetype |-> <<>>, size |-> 0]
Upload(name, mime, size) ==
    [present |-> TRUE, originalname |-> name, mimetype |-> mime, size |-> size]

NoError == [isError |-> FALSE, multer |-> FALSE, code |-> "", message |-> ""]
MulterError(code, message) ==
    [isError |-> TRUE, multer |-> TRUE, code |-> code, message |-> message]
Error(message) ==
    [isError |-> TRUE, multer |-> FALSE, code |-> "", message |-> message]

\* fileFilter: the declared MIME type must start with 'image/'
fileFilter(upload) ==
    IF StartsWithImage(upload.mimetype) THEN NoError
    ELSE Error("Only image files are allowed!")

\* storage.filename: `${uuidv4()}-${file.originalname}`
filename(uuid, upload) == <<uuid, "-">> \o upload.originalname

\* What upload.single('image') leaves when the body has been received:
\* the error it passes to next(err), or req.file (present = FALSE: undefined)
uploadSingle(upload, uniqName) ==
    IF ~upload.present THEN [error |-> NoError, file |-> [present |-> FALSE, filename |-> <<>>]]
    ELSE IF fileFilter(upload).isError
    THEN [error |-> fileFilter(upload), file |-> [present |-> FALSE, filename |-> <<>>]]
    ELSE IF upload.size > fileSizeLimit
    THEN [error |-> MulterError("LIMIT_FILE_SIZE", "File too large"),
          file |-> [present |-> FALSE, filename |-> <<>>]]
    ELSE [error |-> NoError, file |-> [present |-> TRUE, filename |-> uniqName]]

---------------------------------------------------------------------------
(* Responses *)

Json(status, success, message, data) ==
    [status |-> status, success |-> success, message |-> message, data |-> data]

\* The multer error-handling middleware (registered before the routes)
multerErrorHandler(error) ==
    IF error.multer /\ error.code = "LIMIT_FILE_SIZE"
    THEN Json(400, FALSE, "File size too large. Maximum 5MB allowed.", <<>>)
    ELSE Json(400, FALSE, error.message, <<>>)

\* The global error handler (registered last)
globalErrorHandler(error) ==
    Json(500, FALSE, "Internal server error", <<>>)

\* The response to an error passed to next(err) by the layer `layerName`:
\* Express looks for error-handling middleware AFTER that layer
ErrorResponse(layerName, method, path, error) ==
    LET h == Dispatch(LayerIndex(layerName) + 1, method, path, TRUE)
    IN IF h = "multerErrorHandler" THEN multerErrorHandler(error)
       ELSE IF h = "globalErrorHandler" THEN globalErrorHandler(error)
       ELSE Json(500, FALSE, error.message, <<>>)

\* item.imageUrl && !item.imageUrl.startsWith('http') ? absolute : item.imageUrl
FixedUrl(item, host) ==
    IF Truthy(item.imageUrl) /\ ~StartsWithHttp(item.imageUrl.s)
    THEN [item EXCEPT !.imageUrl = Str(AbsoluteUrl(host, item.imageUrl.s))]
    ELSE item

---------------------------------------------------------------------------
(* The route handlers, as functions of the file and the request.           *)
(* Each returns the file it leaves and the response it sends.              *)

\* GET /api/content
listHandler(file, host) ==
    LET content == readContentFromFile(file)
        contentWithFixedUrls == [i \in 1..Len(content) |-> FixedUrl(content[i], host)]
    IN [file |-> file,
        res |-> Json(200, TRUE, "", contentWithFixedUrls) @@ [count |-> Len(contentWithFixedUrls)]]

\* body.title / body.description: undefined when the field was not sent
Field(body, name) == IF name \in DOMAIN body THEN Str(body[name]) ELSE Null

\* Mutant of NewId: id: String(currentContent.length)
NewIdByLength(currentContent, uuid) == ToString(Len(currentContent))

\* id: uuidv4() of newItem; uuid is the value that call returns
NewId(currentContent, uuid) == uuid

\* Mutant of NewItem: title and description stored as sent, without trim()
NewItemUntrimmed(title, description, reqFile, id) ==
    [id |-> id,
     title |-> title,
     description |-> description,
     imageUrl |-> Str(<<"/", "uploads", "/">> \o reqFile.filename),
     createdAt |-> toISOString,
     updatedAt |-> toISOString]

\* newItem of POST /api/content
NewItem(title, description, reqFile, id) ==
    [id |-> id,
     title |-> Trim(title),
     description |-> Trim(description),
     imageUrl |-> Str(<<"/", "uploads", "/">> \o reqFile.filename),
     createdAt |-> toISOString,
     updatedAt |-> toISOString]

\* Mutant of Prepend: [...currentContent, newItem]
AppendLast(newItem, currentContent) == currentContent \o <<newItem>>

\* updatedContent = [newItem, ...currentContent]
Prepend(newItem, currentContent) == <<newItem>> \o currentContent

\* POST /api/content, after upload.single('image') called next()
createHandler(file, body, reqFile, host, uuid, writeOk) ==
    LET title == Field(body, "title")
        description == Field(body, "description")
    IN IF ~Truthy(title) \/ ~Truthy(description)
       THEN [file |-> file, res |-> Json(400, FALSE, "Title and description are required", <<>>)]
       ELSE IF ~reqFile.present
       THEN [file |-> file, res |-> Json(400, FALSE, "Image is required", <<>>)]
       ELSE LET currentContent == readContentFromFile(file)
                newItem == NewItem(title.s, description.s, reqFile, NewId(currentContent, uuid))
                updatedContent == Prepend(newItem, currentContent)
                w == writeContentToFile(file, updatedContent, writeOk)
                responseItem == [newItem EXCEPT !.imageUrl = Str(AbsoluteUrl(host, newItem.imageUrl.s))]
            IN IF ~w.ret
               THEN [file |-> w.file, res |-> Json(500, FALSE, "Failed to save content to storage", <<>>)]
               ELSE [file |-> w.file, res |-> Json(200, TRUE, "Content added successfully!", responseItem)]

\* The map callback of POST /api/fix-image-urls: the item it returns and
\* whether it incremented fixedCount
fixItem(item) ==
    IF Truthy(item.imageUrl)
       /\ (Includes(item.imageUrl.s, "10.185.32.235") \/ Includes(item.imageUrl.s, "localhost"))
    THEN [item |-> [item EXCEPT !.imageUrl = Str(<<"/", "uploads", "/">> \o SplitPop(item.imageUrl.s))],
          counted |-> TRUE]
    ELSE [item |-> item, counted |-> FALSE]

\* POST /api/fix-image-urls
fixImageUrlsHandler(file, writeOk) ==
    LET content == readContentFromFile(file)
        fixedContent == [i \in 1..Len(content) |-> fixItem(content[i]).item]
        fixedCount == Cardinality({i \in 1..Len(content) : fixItem(content[i]).counted})
        w == writeContentToFile(file, fixedContent, writeOk)
    IN IF w.ret
       THEN [file |-> w.file,
             res |-> Json(200, TRUE, "Fixed image URLs!", fixedContent) @@ [fixedCount |-> fixedCount]]
       ELSE [file |-> w.file, res |-> Json(500, FALSE, "Failed to fix image URLs", <<>>)]

\* Mutant of FilterOut: the filter keeps the matching record (=== for !==)
FilterKeep(content, id) == SelectSeq(content, LAMBDA item : item.id = id)

\* currentContent.filter(item => item.id.toString() !== id.toString())
FilterOut(content, id) == SelectSeq(content, LAMBDA item : item.id # id)

\* DELETE /api/content/:id (the route gives :id at least one character, so
\* the handler's `if (!id)` never answers)
deleteHandler(file, id, writeOk) ==
    LET currentContent == readContentFromFile(file)
        initialLength == Len(currentContent)
        updatedContent == FilterOut(currentContent, id)
        w == writeContentToFile(file, updatedContent, writeOk)
    IN IF Len(updatedContent) = initialLength
       THEN [file |-> file, res |-> Json(404, FALSE, "Content not found", <<>>)]
       ELSE IF ~w.ret
       THEN [file |-> w.file, res |-> Json(500, FALSE, "Failed to update storage after deletion", <<>>)]
       ELSE [file |-> w.file, res |-> Json(200, TRUE, "Content deleted permanently!", <<>>) @@ [deletedId |-> id]]

\* POST /api/reset
resetHandler(file, writeOk) ==
    LET w == writeContentToFile(file, sampleData, writeOk)
    IN IF w.ret
       THEN [file |-> w.file, res |-> Json(200, TRUE, "Reset to sample data successfully!", sampleData)]
       ELSE [file |-> w.file, res |-> Json(500, FALSE, "Failed to reset data", <<>>)]

\* Mutant of Find: content.find(...) || content[0]
FindOrFirst(content, id) ==
    LET hits == {i \in 1..Len(content) : content[i].id = id}
    IN IF hits = {} THEN (IF Len(content) > 0 THEN 1 ELSE 0)
       ELSE CHOOSE i \in hits : \A j \in hits : i <= j

\* content.find(item => item.id.toString() === id.toString()): the index of
\* the first match, 0 for undefined
Find(content, id) ==
    LET hits == {i \in 1..Len(content) : content[i].id = id}
    IN IF hits = {} THEN 0 ELSE CHOOSE i \in hits : \A j \in hits : i <= j

\* GET /api/content/:id
getByIdHandler(file, id, host) ==
    LET content == readContentFromFile(file)
        k == Find(content, id)
    IN IF k = 0
       THEN [file |-> file, res |-> Json(404, FALSE, "Content not found", <<>>)]
       ELSE [file |-> file, res |-> Json(200, TRUE, "", FixedUrl(content[k], host))]

---------------------------------------------------------------------------
(* Inputs *)

\* req.get('host') of a request
Hosts == {<<"cms.example.com">>, <<"localhost", ":2148">>}

PaddedTitle == <<" ", "a", " ">>
PaddedDescription == <<"d", " ">>
ValidBody == [title |-> PaddedTitle, description |-> PaddedDescription]
ValidUpload == Upload(<<"pic.png">>, <<"image/", "png">>, 1024)

\* Multipart text fields: a valid body (both fields padded with spaces) and
\* the bodies that differ from it in one field: blank, empty, or not sent
Bodies ==
    { [title |-> t, description |-> PaddedDescription] : t \in {PaddedTitle, <<" ">>, <<>>} }
    \cup { [title |-> PaddedTitle, description |-> d] : d \in {<<" ">>, <<>>} }
    \cup { [title |-> PaddedTitle], [description |-> PaddedDescription] }

\* Multipart file part 'image': none, a small image, one whose name contains
\* 'localhost', one of exactly 5 MB, one a byte larger, and a text file
Uploads ==
    { NoUpload,
      ValidUpload,
      Upload(<<"localhost", ".png">>, <<"image/", "png">>, 1024),
      Upload(<<"pic.png">>, <<"image/", "png">>, fileSizeLimit),
      Upload(<<"pic.png">>, <<"image/", "png">>, fileSizeLimit + 1),
      Upload(<<"notes.txt">>, <<"text/", "plain">>, 1024) }

\* The requests POST /api/content is tried with: every body with the valid
\* upload, and every upload with the valid body
CreateRequests ==
    { [body |-> b, upload |-> ValidUpload] : b \in Bodies }
    \cup { [body |-> ValidBody, upload |-> u] : u \in Uploads }

\* The :id a request may carry
RequestIds == {"1", "no-such-id"} \cup {uuidv4(n) : n \in 1..MaxUuid}

---------------------------------------------------------------------------
(* The state machine *)

\* No request in flight.  A request in flight is known by the uuid its file
\* part was named with; those without such a part are only counted.
NonePending == [unnamed |-> 0, named |-> {}]
InFlight(p) == p.unnamed + Cardinality(p.named)

\* What was sent last: the operation, the :id it carried, the status, and
\* for POST /api/fix-image-urls the count of its message
Sent(op, id, res) ==
    [op |-> op, id |-> id, status |-> res.status,
     fixedCount |-> IF "fixedCount" \in DOMAIN res THEN res.fixedCount ELSE 0]

NoResponse == [op |-> "none", id |-> "", status |-> 0, fixedCount |-> 0]

Init ==
    /\ dataFile \in {NoFile, FileWith(LegacyContent)}
    /\ running = FALSE
    /\ pending = NonePending
    /\ uuidCount = 0
    /\ resp = NoResponse
    /\ live = <<>>

\* node server.js: initializeDataFile(), then app.listen
Start ==
    /\ ~running
    /\ running' = TRUE
    /\ dataFile' = initializeDataFile(dataFile)
    /\ resp' = [NoResponse EXCEPT !.op = "init"]
    /\ UNCHANGED <<pending, uuidCount, live>>

\* The process exits; requests in flight are lost with it
Stop ==
    /\ running
    /\ running' = FALSE
    /\ pending' = NonePending
    /\ resp' = [NoResponse EXCEPT !.op = "stop"]
    /\ UNCHANGED <<dataFile, uuidCount, live>>

\* A handler that touches neither the uuid source nor the history
Respond(op, id, h) ==
    /\ resp' = Sent(op, id, h.res)
    /\ dataFile' = h.file
    /\ UNCHANGED <<running, pending, uuidCount, live>>

List(host) ==
    /\ running
    /\ Dispatch(1, "GET", <<"api", "content">>, FALSE) = "GET /api/content"
    /\ Respond("list", "", listHandler(dataFile, host))

GetById(id, host) ==
    /\ running
    /\ Dispatch(1, "GET", <<"api", "content", id>>, FALSE) = "GET /api/content/:id"
    /\ Respond("get", id, getByIdHandler(dataFile, id, host))

\* POST /api/content reaches its route and multer starts receiving the
\* multipart body.  named: the body carries an 'image' part that passes
\* fileFilter, for which storage.filename draws a uuid while the body is
\* still arriving.  The route handler runs only when the body is complete.
CreateArrive(named) ==
    /\ running
    /\ Dispatch(1, "POST", <<"api", "content">>, FALSE) = "POST /api/content"
    /\ InFlight(pending) < MaxPending
    /\ named => uuidCount < MaxUuid
    /\ pending' = IF named
                  THEN [pending EXCEPT !.named = @ \cup {uuidv4(uuidCount + 1)}]
                  ELSE [pending EXCEPT !.unnamed = @ + 1]
    /\ uuidCount' = IF named THEN uuidCount + 1 ELSE uuidCount
    /\ UNCHANGED <<dataFile, running, resp, live>>

\* multer has the whole body r of a request in flight (the one whose file
\* was named with uuid, or one without a named file when uuid = ""): it
\* passes its error to next(err), or calls the route handler, which runs to
\* its response without yielding (readFileSync, writeFileSync)
CreateComplete(uuid, r, host, writeOk) ==
    /\ running
    /\ IF r.upload.present /\ ~fileFilter(r.upload).isError
       THEN uuid \in pending.named
       ELSE uuid = "" /\ pending.unnamed > 0
    /\ LET u == uploadSingle(r.upload, filename(uuid, r.upload))
           h == createHandler(dataFile, r.body, u.file, host, uuidv4(uuidCount + 1), writeOk)
       IN IF u.error.isError
          THEN /\ resp' = Sent("create", "",
                               ErrorResponse("POST /api/content", "POST", <<"api", "content">>, u.error))
               /\ UNCHANGED <<dataFile, uuidCount, live>>
          ELSE /\ h.res.status # 400 => uuidCount < MaxUuid
               /\ resp' = Sent("create", IF h.res.status = 200 THEN h.res.data.id ELSE "", h.res)
               /\ dataFile' = h.file
               /\ uuidCount' = IF h.res.status = 400 THEN uuidCount ELSE uuidCount + 1
               /\ live' = IF h.res.status = 200
                          THEN Append(live, [id |-> h.res.data.id, body |-> r.body])
                          ELSE live
    /\ pending' = IF uuid = ""
                  THEN [pending EXCEPT !.unnamed = @ - 1]
                  ELSE [pending EXCEPT !.named = @ \ {uuid}]
    /\ UNCHANGED running

FixImageUrls(writeOk) ==
    /\ running
    /\ Dispatch(1, "POST", <<"api", "fix-image-urls">>, FALSE) = "POST /api/fix-image-urls"
    /\ Respond("fix", "", fixImageUrlsHandler(dataFile, writeOk))

DeleteById(id, writeOk) ==
    /\ running
    /\ Dispatch(1, "DELETE", <<"api", "content", id>>, FALSE) = "DELETE /api/content/:id"
    /\ LET h == deleteHandler(dataFile, id, writeOk)
       IN /\ resp' = Sent("delete", id, h.res)
          /\ dataFile' = h.file
          /\ live' = IF h.res.status = 200
                     THEN SelectSeq(live, LAMBDA c : c.id # id)
                     ELSE live
    /\ UNCHANGED <<running, pending, uuidCount>>

Reset(writeOk) ==
    /\ running
    /\ Dispatch(1, "POST", <<"api", "reset">>, FALSE) = "POST /api/reset"
    /\ LET h == resetHandler(dataFile, writeOk)
       IN /\ resp' = Sent("reset", "", h.res)
          /\ dataFile' = h.file
          /\ live' = IF h.res.status = 200 THEN <<>> ELSE live
    /\ UNCHANGED <<running, pending, uuidCount>>

Next ==
    \/ Start
    \/ Stop
    \/ \E host \in Hosts : List(host)
    \/ \E id \in RequestIds, host \in Hosts : GetById(id, host)
    \/ \E named \in BOOLEAN : CreateArrive(named)
    \/ \E uuid \in pending.named \cup {""}, r \in CreateRequests, host \in Hosts, writeOk \in BOOLEAN :
          CreateComplete(uuid, r, host, writeOk)
    \/ \E writeOk \in BOOLEAN : FixImageUrls(writeOk)
    \/ \E id \in RequestIds, writeOk \in BOOLEAN : DeleteById(id, writeOk)
    \/ \E writeOk \in BOOLEAN : Reset(writeOk)

Spec == Init /\ [][Next]_vars

---------------------------------------------------------------------------
(* Properties *)

Content == readContentFromFile(dataFile)
LiveIds == {live[i].id : i \in 1..Len(live)}
Uuids == {uuidv4(n) : n \in 1..MaxUuid}

\* C1: a record whose Create succeeded, and that no Delete of its id and no
\* Reset has removed since, is found by GET /api/content/:id under every
\* host: status 200, the same id, the title and description of the request
\* (trimmed, as Create returned them) and an image reference that is not null.
C1_CreateThenGetById ==
    \A i \in 1..Len(live), host \in Hosts :
        LET r == getByIdHandler(dataFile, live[i].id, host).res
        IN /\ r.status = 200
           /\ r.success
           /\ r.data.id = live[i].id
           /\ r.data.title = Trim(live[i].body.title)
           /\ r.data.description = Trim(live[i].body.description)
           /\ r.data.imageUrl # Null
           /\ Truthy(r.data.imageUrl)

\* A GetById of a created, surviving record has just answered
C1_Witness ==
    /\ resp.op = "get"
    /\ resp.status = 200
    /\ resp.id \in LiveIds
    /\ \E i \in 1..Len(live) : live[i].id = resp.id /\ live[i].body.title = PaddedTitle

\* C2: GET /api/content returns the surviving created records first, in
\* reverse order of creation, ahead of every record that was in the
\* collection before them (the seed, the records of an earlier revision).
C2_NewestFirst ==
    \A host \in Hosts :
        LET data == listHandler(dataFile, host).res.data
            n == Len(live)
        IN /\ Len(data) >= n
           /\ \A i \in 1..n : data[i].id = live[n + 1 - i].id
           /\ \A i \in (n + 1)..Len(data) : data[i].id \notin LiveIds

\* A List has just answered with two created records ahead of an older one
C2_Witness ==
    /\ resp.op = "list"
    /\ resp.status = 200
    /\ Len(live) >= 2
    /\ Len(Content) > Len(live)

\* The index of the record with this id
IndexOf(content, id) == CHOOSE k \in 1..Len(content) : content[k].id = id

\* C3: a DeleteById that succeeds for an id of the collection leaves the
\* collection one record shorter, without that id, every other record kept
\* in place and in order; the same DeleteById again answers 404.
C3_DeleteRemovesExactlyOne ==
    [][(/\ resp'.op = "delete"
        /\ resp'.status = 200
        /\ resp'.id \in IdsOf(Content)
        /\ DeleteById(resp'.id, TRUE))
          => LET id == resp'.id
                 before == dataFile.content
                 after == dataFile'.content
                 k == IndexOf(before, id)
             IN /\ Len(after) = Len(before) - 1
                /\ id \notin IdsOf(after)
                /\ after = SubSeq(before, 1, k - 1) \o SubSeq(before, k + 1, Len(before))
                /\ \A again \in BOOLEAN :
                      /\ deleteHandler(dataFile', id, again).res.status = 404
                      /\ deleteHandler(dataFile', id, again).file = dataFile'
      ]_vars

\* A DeleteById has just succeeded and left other records behind
C3_Witness ==
    /\ resp.op = "delete"
    /\ resp.status = 200
    /\ Len(Content) >= 2
    /\ resp.id \notin IdsOf(Content)

\* C4: for an id that no record of the collection has, GetById and
\* DeleteById answer 404 with success false, and the file stays as it is.
C4_UnknownIdNotFound ==
    \A id \in RequestIds \ IdsOf(Content), host \in Hosts, writeOk \in BOOLEAN :
        LET g == getByIdHandler(dataFile, id, host)
            d == deleteHandler(dataFile, id, writeOk)
        IN /\ g.res.status = 404 /\ ~g.res.success /\ g.file = dataFile
           /\ d.res.status = 404 /\ ~d.res.success /\ d.file = dataFile

\* A GetById or DeleteById of an unknown id has just answered 404
C4_Witness ==
    /\ resp.op \in {"get", "delete"}
    /\ resp.status = 404
    /\ resp.id \notin IdsOf(Content)
    /\ Len(Content) >= 2

\* C5: no two records of the file have the same id.
C5_UniqueIds ==
    \A i, j \in 1..Len(Content) : i # j => Content[i].id # Content[j].id

\* Two created records beside an older one
C5_Witness ==
    /\ Len(live) >= 2
    /\ Len(Content) >= 3

\* C6: every record of the file has a non-empty title and a non-empty
\* description (Create answers 400 when either is empty or missing).
C6_StoredTitleAndDescriptionNonEmpty ==
    \A i \in 1..Len(Content) :
        Content[i].title # <<>> /\ Content[i].description # <<>>

\* C7: a Create whose image is larger than 5 MB, or whose declared MIME type
\* is not an image type, is answered 400 and adds no record.
C7_BadImageRejectedWith400 ==
    [][\A uuid \in Uuids \cup {""}, r \in CreateRequests, host \in Hosts, writeOk \in BOOLEAN :
          (/\ CreateComplete(uuid, r, host, writeOk)
           /\ r.upload.present
           /\ (r.upload.size > fileSizeLimit \/ ~StartsWithImage(r.upload.mimetype)))
          => resp'.status = 400 /\ dataFile' = dataFile
      ]_vars

\* C8: start-up leaves an existing file unchanged, whatever it holds; when
\* there is none it writes exactly the one seeded record with a null image;
\* and running it again changes nothing.
C8_InitializeIdempotent ==
    [][Start =>
          /\ dataFile.exists => dataFile' = dataFile
          /\ ~dataFile.exists =>
                /\ dataFile'.exists
                /\ Len(dataFile'.content) = 1
                /\ dataFile'.content[1].id = "1"
                /\ dataFile'.content[1].title = <<"Welcome to the Content Management System">>
                /\ dataFile'.content[1].imageUrl = Null
          /\ initializeDataFile(dataFile') = dataFile'
      ]_vars

\* The process has restarted on a file that holds a created record
C8_Witness ==
    /\ resp.op = "init"
    /\ running
    /\ Len(live) >= 1
    /\ live[1].id \in IdsOf(Content)

\* An absolute URL with one of the hosts of the earlier revision
IsStaleAbsolute(url) ==
    /\ url # Null
    /\ StartsWithHttp(url.s)
    /\ Len(url.s) >= 2
    /\ url.s[2] \in {"10.185.32.235", "localhost"}

\* C10: POST /api/fix-image-urls rewrites exactly the records whose image
\* reference is an absolute URL with a stale host, to a host-relative path,
\* and reports as its count the number of image references it changed.
C10_FixCountsChangedRecords ==
    [][\A writeOk \in BOOLEAN :
          (FixImageUrls(writeOk) /\ resp'.status = 200)
          => LET before == Content
                 after == dataFile'.content
             IN /\ Len(after) = Len(before)
                /\ \A i \in 1..Len(before) :
                      IF IsStaleAbsolute(before[i].imageUrl)
                      THEN ~StartsWithHttp(after[i].imageUrl.s)
                      ELSE after[i] = before[i]
                /\ resp'.fixedCount =
                      Cardinality({i \in 1..Len(before) : after[i].imageUrl # before[i].imageUrl})
      ]_vars

\* Supporting invariant: the handlers do not yield between reading and
\* writing the file, so every Create that answered 200 has its record in the
\* file until a Delete of its id or a Reset (no update is lost to another
\* request, also with several Creates in flight).
NoLostUpdate == LiveIds \subseteq IdsOf(Content)

====
